---- MODULE Spec2Model ----
(***************************************************************************)
(* State-machine model of the Roon sidecar client                          *)
(* (sidecar/src/roon/client.ts: RoonClient and TransportManager).          *)
(*                                                                         *)
(* Every method of the client is an operator from an object state `s` (a   *)
(* record of the fields of RoonClient, TransportManager and ImageManager,  *)
(* of the runtime's timer tables and open sockets, and of what the handler *)
(* running now has emitted and called) to the object state it leaves.      *)
(* Every action of Next is one callback or one public call, run to         *)
(* completion on the single event-loop thread.  What a handler emits and   *)
(* calls is part of the record it returns, not of the state: a property of *)
(* a handler is stated of the record the handler returns in every state    *)
(* the client can reach.                                                   *)
(***************************************************************************)
EXTENDS Integers, Sequences, FiniteSets, TLC

(* ------------------------------ bounds -------------------------------- *)
\* reconnectAttempt is not allowed to grow beyond this value
MaxAttempt == 7
\* number of web sockets opened by ws_connect whose onclose has not fired
MaxSockets == 2
\* timer handles the runtime can hand out with setTimeout
MaxTimerId == 2
\* interval handles the runtime can hand out with setInterval
MaxIntervalId == 2
\* suspended extractAndEmitNowPlaying calls (awaiting fetchArtwork)
MaxInflight == 1

(* ------------------------- program constants -------------------------- *)
\* RECONNECT_CONFIG
initialDelayMs == 1000
maxDelayMs == 60000
multiplier == 2
\* the port start() connects to when ROON_PORT is not set
defaultPort == 9100

(* ------------------------------ values -------------------------------- *)
\* a null timer / interval handle
NoHandle == 0

NoCore == [display_name |-> "null", hasTransport |-> FALSE, hasImage |-> FALSE]

\* RoonCore: its name and which capability services core.services holds
Cores ==
  {c \in [display_name : {"core"}, hasTransport : BOOLEAN,
          hasImage : BOOLEAN] : c.hasTransport \/ c.hasImage}

ZoneIds == {"z1", "z2"}
ImageKeys == {"k1", "k2"}
\* Zone.state as Roon sends it; "undefined" is a zone without the field
ZoneStates == {"playing", "paused", "stopped", "loading", "undefined"}

\* now_playing absent on the zone
NoNowPlaying ==
  [present |-> FALSE, image_key |-> "undefined",
   three_line |-> <<>>, two_line |-> <<>>, one_line |-> <<>>]

\* NowPlayingData; a line structure that is absent is the empty tuple
NowPlayings ==
  {[present |-> TRUE, image_key |-> k,
    three_line |-> <<"Song", "Artist", "Album">>,
    two_line |-> <<"Song", "Artist">>, one_line |-> <<"Song">>]
     : k \in ImageKeys \cup {"undefined"}}

NowPlaying(k) == CHOOSE np \in NowPlayings : np.image_key = k

Zone(id, state, np) == [zone_id |-> id, state |-> state, now_playing |-> np]

\* zone lists of an update
ZoneLists ==
  {<<Zone("z1", "playing", NowPlaying(k))>> : k \in ImageKeys}
    \cup {<<Zone("z1", "stopped", NoNowPlaying)>>,
          <<Zone("z1", "stopped", NoNowPlaying),
            Zone("z2", "paused", NowPlaying("undefined"))>>,
          <<Zone("z2", "loading", NowPlaying("undefined"))>>,
          <<Zone("z1", "stopped", NoNowPlaying),
            Zone("z2", "playing", NowPlaying("undefined"))>>,
          <<Zone("z1", "playing",
                 [present |-> TRUE, image_key |-> "undefined",
                  three_line |-> <<>>, two_line |-> <<"Song", "undefined">>,
                  one_line |-> <<"Other">>])>>}

\* ZonesData: has_zones / has_changed say whether the property is present
\* (an empty array is present and truthy); zones_removed and
\* zones_seek_changed are only tested for being non-empty
ZonesData(hz, z, hc, c, r, sk) ==
  [has_zones |-> hz, zones |-> z, has_changed |-> hc, zones_changed |-> c,
   zones_removed |-> r, zones_seek_changed |-> sk]

NoData == ZonesData(FALSE, <<>>, FALSE, <<>>, <<>>, FALSE)

UpdateInputs ==
  {ZonesData(TRUE, zl, FALSE, <<>>, <<>>, FALSE) : zl \in ZoneLists}
    \cup {ZonesData(FALSE, <<>>, TRUE, zl, <<>>, FALSE) :
            zl \in {<<Zone("z1", "playing", NowPlaying(k))>> : k \in ImageKeys}}
    \cup {ZonesData(FALSE, <<>>, FALSE, <<>>, <<"z1">>, FALSE),
          ZonesData(FALSE, <<>>, FALSE, <<>>, <<"z1">>, TRUE),
          ZonesData(FALSE, <<>>, FALSE, <<>>, <<>>, TRUE),
          ZonesData(TRUE, <<>>, FALSE, <<>>, <<>>, TRUE),
          NoData}

(* --------------------------- persisted state -------------------------- *)
\* a JSON value as get_persisted_state sees it: its type, its `tokens`
\* property and its `paired_core_id` property ("undefined": no such property)
JVal(type, tokens, core) ==
  [type |-> type, tokens |-> tokens, paired_core_id |-> core]
\* values of `tokens`: absent, null, 0, a non-empty string, {} and a
\* non-empty token map
TokenValues == {"undefined", "null", "zero", "text", "empty", "tok"}
Falsy(tk) == tk \in {"undefined", "null", "zero"}
JsonValues ==
  {JVal(ty, "undefined", "undefined") :
     ty \in {"null", "number", "string", "array"}}
    \cup {JVal("object", tk, c) :
            tk \in TokenValues, c \in {"undefined", "core"}}
\* the states the library hands to set_persisted_state
LibStates ==
  {JVal("object", tk, c) : tk \in {"empty", "tok"},
                          c \in {"undefined", "core"}}
\* { tokens: {} }
EmptyState == JVal("object", "empty", "undefined")

\* roon-config.json: absent, unreadable, not JSON, or the text of a value
ConfigFile(exists, readable, valid, value) ==
  [exists |-> exists, readable |-> readable, valid |-> valid,
   value |-> value]
AbsentFile == ConfigFile(FALSE, FALSE, FALSE, JVal("null", "undefined", "undefined"))
UnreadableFile ==
  ConfigFile(TRUE, FALSE, FALSE, JVal("null", "undefined", "undefined"))
InvalidFile ==
  ConfigFile(TRUE, TRUE, FALSE, JVal("null", "undefined", "undefined"))
\* JSON.stringify(state, null, 2) written out
JsonFile(v) == ConfigFile(TRUE, TRUE, TRUE, v)
ConfigFiles ==
  {AbsentFile, UnreadableFile, InvalidFile} \cup {JsonFile(v) : v \in JsonValues}
\* get_persisted_state has not been called
NotLoaded == JVal("undefined", "undefined", "undefined")
\* how a writeFileSync ends: written, refused before the file is touched,
\* or failed after the file was truncated
WriteOutcomes == {"ok", "denied", "partial"}

(* ------------------------------ output -------------------------------- *)
\* one line on stdout: the emit function and the arguments it was given
\* (messages of status events are left out; an argument not passed is
\* "undefined")
StatusEv(state) == <<"status", state, "", "", "", "">>
ErrorEv(what) == <<"error", what, "", "", "", "">>
NowPlayingEv(a1, a2, a3, a4, a5) == <<"now_playing", a1, a2, a3, a4, a5>>

(* ------------------------------- state -------------------------------- *)
VARIABLES
  roonHost,                  \* process.env.ROON_HOST is set
  isAuthorized, currentCore, reconnectAttempt, reconnectTimer,
  connectionMonitorInterval, \* RoonClient
  transportService, currentZoneId, lastImageKey,  \* TransportManager
  imageService,              \* ImageManager
  pending,                   \* runtime: armed one-shot timers, each
                             \*   [id |-> handle, delay |-> ms]
  intervals,                 \* runtime: live intervals (handles)
  sockets,                   \* open web sockets with an onclose callback
  discovering,               \* start_discovery has been called
  subscribed,                \* a subscribe_zones callback is registered
  inflight,                  \* suspended extractAndEmitNowPlaying calls
  stopped,                   \* history: stop() has completed and start()
                             \*   was not called from outside since
  sincePair,                 \* history: reconnects scheduled since the last
                             \*   core_paired, -1 before the first pairing
  closeRun,                  \* history: socket closes since reconnectAttempt
                             \*   was 0 with no other reconnect scheduled
                             \*   between them; -1 outside such a run
  configFile,                \* the pairing file roon-config.json
  loaded,                    \* what get_persisted_state returned last
  process,                   \* the sidecar process: "main" while main()
                             \*   runs, "running" once it has returned,
                             \*   "exit0" / "exit1" after process.exit
  watch                      \* history: "left" once the client has left
                             \*   Paired and no reconnect timer has called
                             \*   start() since, "idle" otherwise; "off"
                             \*   where this is not observed

clientVars ==
  <<roonHost, isAuthorized, currentCore, reconnectAttempt, reconnectTimer,
    connectionMonitorInterval, transportService, currentZoneId, lastImageKey,
    imageService>>
envVars == <<pending, intervals, sockets, discovering, subscribed, inflight>>
histVars == <<stopped, sincePair, closeRun, watch>>
persistVars == <<configFile, loaded>>
vars == <<clientVars, envVars, histVars, persistVars, process>>

\* the object state a handler starts from: nothing emitted or called yet
Cur ==
  [roonHost |-> roonHost, isAuthorized |-> isAuthorized,
   currentCore |-> currentCore, reconnectAttempt |-> reconnectAttempt,
   reconnectTimer |-> reconnectTimer,
   connectionMonitorInterval |-> connectionMonitorInterval,
   transportService |-> transportService, currentZoneId |-> currentZoneId,
   lastImageKey |-> lastImageKey, imageService |-> imageService,
   pending |-> pending, intervals |-> intervals, sockets |-> sockets,
   discovering |-> discovering, subscribed |-> subscribed,
   inflight |-> inflight, configFile |-> configFile, loaded |-> loaded,
   process |-> process,
   emitted |-> <<>>, calls |-> <<>>, armedDelay |-> 0, threw |-> FALSE,
   overflow |-> FALSE]

\* no callback runs once process.exit has been called
Alive == process \in {"main", "running"}

\* a handler has run to completion and left object state s
Commit(s) ==
  /\ Alive
  /\ ~s.overflow
  /\ process' = s.process
  /\ roonHost' = s.roonHost
  /\ isAuthorized' = s.isAuthorized
  /\ currentCore' = s.currentCore
  /\ reconnectAttempt' = s.reconnectAttempt
  /\ reconnectTimer' = s.reconnectTimer
  /\ connectionMonitorInterval' = s.connectionMonitorInterval
  /\ transportService' = s.transportService
  /\ currentZoneId' = s.currentZoneId
  /\ lastImageKey' = s.lastImageKey
  /\ imageService' = s.imageService
  /\ pending' = s.pending
  /\ intervals' = s.intervals
  /\ sockets' = s.sockets
  /\ discovering' = s.discovering
  /\ subscribed' = s.subscribed
  /\ inflight' = s.inflight
  /\ configFile' = s.configFile
  /\ loaded' = s.loaded

Range(q) == {q[i] : i \in 1..Len(q)}
Count(q, x) == Cardinality({i \in 1..Len(q) : q[i] = x})
Min(a, b) == IF a <= b THEN a ELSE b
RECURSIVE Pow(_, _)
Pow(b, e) == IF e = 0 THEN 1 ELSE b * Pow(b, e - 1)

(* -------------------------- output.ts calls --------------------------- *)
emitStatus(s, state) == [s EXCEPT !.emitted = Append(@, StatusEv(state))]
emitError(s, what) == [s EXCEPT !.emitted = Append(@, ErrorEv(what))]
emitNowPlaying(s, a1, a2, a3, a4, a5) ==
  [s EXCEPT !.emitted = Append(@, NowPlayingEv(a1, a2, a3, a4, a5))]
Call(s, what) == [s EXCEPT !.calls = Append(@, what)]

(* ------------------ ImageManager (roon/image.ts) ---------------------- *)
setImageService(s) == [s EXCEPT !.imageService = "image"]
clearImageService(s) == [s EXCEPT !.imageService = "null"]
\* what fetchArtwork(key) resolves to: encoded artwork, or undefined
Artwork(key) == IF key = "k1" THEN "art1" ELSE "art2"
FetchResults(key) == {Artwork(key), "undefined"}

(* ------------------------- TransportManager --------------------------- *)
clearTransportService(s) ==
  [s EXCEPT !.transportService = "null", !.currentZoneId = "null",
            !.lastImageKey = "null"]

\* `line || ''`: a line that is missing ("undefined") or empty gives ''
Line(x) == IF x \in {"undefined", ""} THEN "" ELSE x

\* mutant: a line missing in the chosen structure is taken from the next one
Metadata_fallThrough(np) ==
  LET l3 == IF Len(np.three_line) > 0 THEN np.three_line
            ELSE <<"", "", "">>
      l2 == IF Len(np.two_line) > 0 THEN np.two_line ELSE <<"", "">>
      l1 == IF Len(np.one_line) > 0 THEN np.one_line ELSE <<"">>
      Or(a, b) == IF Line(a) # "" THEN a ELSE Line(b)
  IN <<Or(l3[1], Or(l2[1], l1[1])), Or(l3[2], l2[2]), Line(l3[3])>>

\* title, artist, album of a now_playing by three_line > two_line > one_line
Metadata(np) ==
  IF Len(np.three_line) > 0
    THEN <<Line(np.three_line[1]), Line(np.three_line[2]),
           Line(np.three_line[3])>>
  ELSE IF Len(np.two_line) > 0
    THEN <<Line(np.two_line[1]), Line(np.two_line[2]), "">>
  ELSE IF Len(np.one_line) > 0
    THEN <<Line(np.one_line[1]), "", "">>
  ELSE <<"", "", "">>

PlaybackState(state) ==
  IF state = "playing" THEN "playing"
  ELSE IF state = "paused" THEN "paused" ELSE "stopped"

\* the call is suspended at `await fetchArtwork(imageKey)`
Suspend(s, m, state, imageKey, newKey) ==
  [Call(s, "fetchArtwork") EXCEPT
     !.inflight = Append(@, [title |-> m[1], artist |-> m[2],
                             album |-> m[3], state |-> state,
                             imageKey |-> imageKey, newKey |-> newKey]),
     !.overflow = @ \/ Len(s.inflight) >= MaxInflight]

\* mutant: the stopped branch keeps the cached image key
extractAndEmitNowPlaying_keepKey(s, zone) ==
  LET nowPlaying == zone.now_playing
      state == IF zone.state = "undefined" THEN "stopped" ELSE zone.state
      m == Metadata(nowPlaying)
      playbackState == PlaybackState(state)
      imageKey == nowPlaying.image_key
  IN IF state = "stopped" \/ ~nowPlaying.present
       THEN emitNowPlaying(s, "", "", "", "stopped", "undefined")
     ELSE IF imageKey # "undefined" /\ imageKey # s.lastImageKey
       THEN Suspend(s, m, playbackState, imageKey, TRUE)
     ELSE IF imageKey = s.lastImageKey
       THEN Suspend(s, m, playbackState, imageKey, FALSE)
     ELSE emitNowPlaying(s, m[1], m[2], m[3], playbackState, "undefined")

\* extractAndEmitNowPlaying up to its first await
extractAndEmitNowPlaying(s, zone) ==
  LET nowPlaying == zone.now_playing
      state == IF zone.state = "undefined" THEN "stopped" ELSE zone.state
      m == Metadata(nowPlaying)
      playbackState == PlaybackState(state)
      imageKey == nowPlaying.image_key
  IN IF state = "stopped" \/ ~nowPlaying.present
       THEN [emitNowPlaying(s, "", "", "", "stopped", "undefined")
               EXCEPT !.lastImageKey = "null"]
     ELSE IF imageKey # "undefined" /\ imageKey # s.lastImageKey
       THEN Suspend(s, m, playbackState, imageKey, TRUE)
     ELSE IF imageKey = s.lastImageKey
       THEN Suspend(s, m, playbackState, imageKey, FALSE)
     ELSE emitNowPlaying(s, m[1], m[2], m[3], playbackState, "undefined")

\* extractAndEmitNowPlaying after the await of continuation c resolved
resumeExtract(s, c, artwork) ==
  LET s1 == IF c.newKey THEN [s EXCEPT !.lastImageKey = c.imageKey] ELSE s
  IN emitNowPlaying(s1, c.title, c.artist, c.album, c.state, artwork)

\* mutant: the first zone is taken whatever its state
ActiveZone_first(zones) == zones[1]

\* zones.find(playing or paused) || zones[0]
ActiveZone(zones) ==
  LET idx == {i \in 1..Len(zones) : zones[i].state \in {"playing", "paused"}}
  IN IF idx = {} THEN zones[1]
     ELSE zones[CHOOSE i \in idx : \A j \in idx : i <= j]

\* mutant: an update without zones clears the state, removal or not, and
\* seek-only updates are not set apart
handleZonesUpdate_clearOnEmpty(s, data) ==
  LET zones == IF data.has_zones THEN data.zones
               ELSE IF data.has_changed THEN data.zones_changed ELSE <<>>
  IN IF Len(zones) = 0
       THEN IF s.currentZoneId # "null"
              THEN [emitNowPlaying(s, "", "", "", "stopped", "undefined")
                      EXCEPT !.currentZoneId = "null",
                             !.lastImageKey = "null"]
            ELSE s
     ELSE LET activeZone == ActiveZone(zones)
          IN extractAndEmitNowPlaying(
               [s EXCEPT !.currentZoneId = activeZone.zone_id], activeZone)

handleZonesUpdate(s, data) ==
  IF data.zones_seek_changed /\ ~data.has_zones /\ ~data.has_changed
    THEN s
  ELSE
    LET zones == IF data.has_zones THEN data.zones
                 ELSE IF data.has_changed THEN data.zones_changed ELSE <<>>
    IN IF Len(zones) = 0
         THEN IF Len(data.zones_removed) > 0 /\ s.currentZoneId # "null"
                THEN [emitNowPlaying(s, "", "", "", "stopped", "undefined")
                        EXCEPT !.currentZoneId = "null",
                               !.lastImageKey = "null"]
              ELSE s
       ELSE LET activeZone == ActiveZone(zones)
            IN extractAndEmitNowPlaying(
                 [s EXCEPT !.currentZoneId = activeZone.zone_id], activeZone)

Responses ==
  {"Subscribed", "Changed", "NetworkError", "ConnectionError", "Other"}

\* mutant: a subscription error schedules a reconnect
zonesCallback_retry(s, response, data) ==
  IF response \in {"Subscribed", "Changed"} THEN handleZonesUpdate(s, data)
  ELSE IF response \in {"NetworkError", "ConnectionError"}
    THEN [Call(emitStatus(s, "disconnected"), "setTimeout") EXCEPT
            !.pending = {[id |-> MaxTimerId, delay |-> initialDelayMs]},
            !.reconnectTimer = MaxTimerId]
  ELSE s

\* the callback given to subscribe_zones
zonesCallback(s, response, data) ==
  IF response \in {"Subscribed", "Changed"} THEN handleZonesUpdate(s, data)
  ELSE IF response \in {"NetworkError", "ConnectionError"}
    THEN emitStatus(s, "disconnected")
  ELSE s

\* subOk: subscribe_zones returns (it throws otherwise)
subscribeToZones(s, subOk) ==
  IF s.transportService = "null" THEN s
  ELSE IF subOk THEN [Call(s, "subscribe_zones") EXCEPT !.subscribed = TRUE]
  ELSE emitError(Call(s, "subscribe_zones"), "Failed to subscribe to zones")

\* mutant: the service is stored but the zones are never subscribed to
setTransportService_noSubscribe(s, subOk) ==
  [s EXCEPT !.transportService = "transport"]

setTransportService(s, subOk) ==
  subscribeToZones([s EXCEPT !.transportService = "transport"], subOk)

(* ----------------------------- RoonClient ----------------------------- *)
\* mutant: the parsed state is returned as it is
get_persisted_state_asParsed(s) ==
  LET f == s.configFile
  IN [s EXCEPT !.loaded =
        IF f.exists /\ f.readable /\ f.valid /\ f.value.type # "null"
          THEN f.value
        ELSE EmptyState]

\* the get_persisted_state option: any exception in the try block (reading,
\* JSON.parse, state.tokens of null, setting a property of a primitive in
\* strict mode) falls through to `return { tokens: {} }`
get_persisted_state(s) ==
  LET f == s.configFile
      state == f.value
  IN [s EXCEPT !.loaded =
        IF ~f.exists THEN EmptyState
        ELSE IF ~f.readable \/ ~f.valid THEN EmptyState
        ELSE IF state.type = "null" THEN EmptyState
        ELSE IF Falsy(state.tokens)
          THEN IF state.type \in {"object", "array"}
                 THEN [state EXCEPT !.tokens = "empty"]
               ELSE EmptyState
        ELSE state]

\* mutant: a failing write is not caught
set_persisted_state_noCatch(s, state, outcome) ==
  IF outcome = "ok" THEN [s EXCEPT !.configFile = JsonFile(state)]
  ELSE IF outcome = "partial"
    THEN [s EXCEPT !.configFile = InvalidFile, !.threw = TRUE]
  ELSE [s EXCEPT !.threw = TRUE]

\* the set_persisted_state option: writeFileSync in a try / catch that logs
set_persisted_state(s, state, outcome) ==
  IF outcome = "ok" THEN [s EXCEPT !.configFile = JsonFile(state)]
  ELSE IF outcome = "partial" THEN [s EXCEPT !.configFile = InvalidFile]
  ELSE s

isConnected(s) == s.isAuthorized /\ s.currentCore # NoCore
getCurrentCore(s) == s.currentCore

initializeServices(s, core, subOk) ==
  LET s1 == IF core.hasTransport THEN setTransportService(s, subOk) ELSE s
  IN IF core.hasImage THEN setImageService(s1) ELSE s1

\* mutant: the backoff counter is not reset on pairing
handleCorePaired_noReset(s, core, subOk) ==
  initializeServices(
    emitStatus([s EXCEPT !.isAuthorized = TRUE, !.currentCore = core],
               "connected"),
    core, subOk)

handleCorePaired(s, core, subOk) ==
  initializeServices(
    emitStatus([s EXCEPT !.isAuthorized = TRUE, !.currentCore = core,
                         !.reconnectAttempt = 0], "connected"),
    core, subOk)

\* mutant: the core is kept when the authorization is dropped
handleCoreUnpaired_keepCore(s, core) ==
  emitNowPlaying(
    clearImageService(clearTransportService(
      emitStatus([s EXCEPT !.isAuthorized = FALSE], "disconnected"))),
    "__disconnected__", "", "", "", "stopped")

handleCoreUnpaired(s, core) ==
  emitNowPlaying(
    clearImageService(clearTransportService(
      emitStatus([s EXCEPT !.isAuthorized = FALSE, !.currentCore = NoCore],
                 "disconnected"))),
    "__disconnected__", "", "", "", "stopped")

\* a handle the runtime is not using, or NoHandle when the bound is reached
FreshHandle(used, max) ==
  LET free == (1..max) \ used
  IN IF free = {} THEN NoHandle ELSE CHOOSE t \in free : \A u \in free : t <= u

\* mutant: no check for an existing interval
startConnectionMonitor_noGuard(s) ==
  LET id == FreshHandle(s.intervals, MaxIntervalId)
  IN IF id = NoHandle THEN [s EXCEPT !.overflow = TRUE]
     ELSE [Call(s, "setInterval") EXCEPT
             !.connectionMonitorInterval = id, !.intervals = @ \cup {id}]

startConnectionMonitor(s) ==
  IF s.connectionMonitorInterval # NoHandle THEN s
  ELSE LET id == FreshHandle(s.intervals, MaxIntervalId)
       IN IF id = NoHandle THEN [s EXCEPT !.overflow = TRUE]
          ELSE [Call(s, "setInterval") EXCEPT
                  !.connectionMonitorInterval = id,
                  !.intervals = @ \cup {id}]

ReconnectDelay(attempt) ==
  Min(initialDelayMs * Pow(multiplier, attempt), maxDelayMs)

\* clearTimeout(handle): a handle that has fired or is null is ignored
clearTimeout(s, handle) ==
  [Call(s, "clearTimeout") EXCEPT
     !.pending = {t \in @ : t.id # handle}]

\* setTimeout(() => this.start(), delay): the handle it returns
setTimeout(s, id, delay) ==
  [Call(s, "setTimeout") EXCEPT
     !.pending = @ \cup {[id |-> id, delay |-> delay]},
     !.armedDelay = delay]

\* mutant: the delay is computed after the counter is incremented
scheduleReconnect_lateDelay(s) ==
  LET s1 == IF s.reconnectTimer # NoHandle
              THEN clearTimeout(s, s.reconnectTimer)
            ELSE s
      delay == ReconnectDelay(s1.reconnectAttempt + 1)
      id == FreshHandle({t.id : t \in s1.pending}, MaxTimerId)
  IN IF id = NoHandle \/ s1.reconnectAttempt >= MaxAttempt
       THEN [s1 EXCEPT !.overflow = TRUE]
     ELSE [setTimeout(s1, id, delay) EXCEPT
             !.reconnectAttempt = @ + 1, !.reconnectTimer = id]

\* mutant: the timer armed before is not cancelled
scheduleReconnect_noClear(s) ==
  LET delay == ReconnectDelay(s.reconnectAttempt)
      id == FreshHandle({t.id : t \in s.pending}, MaxTimerId)
  IN IF id = NoHandle \/ s.reconnectAttempt >= MaxAttempt
       THEN [s EXCEPT !.overflow = TRUE]
     ELSE [setTimeout(s, id, delay) EXCEPT
             !.reconnectAttempt = @ + 1, !.reconnectTimer = id]

scheduleReconnect(s) ==
  LET s1 == IF s.reconnectTimer # NoHandle
              THEN clearTimeout(s, s.reconnectTimer)
            ELSE s
      delay == ReconnectDelay(s1.reconnectAttempt)
      id == FreshHandle({t.id : t \in s1.pending}, MaxTimerId)
  IN IF id = NoHandle \/ s1.reconnectAttempt >= MaxAttempt
       THEN [s1 EXCEPT !.overflow = TRUE]
     ELSE [setTimeout(s1, id, delay) EXCEPT
             !.reconnectAttempt = @ + 1, !.reconnectTimer = id]

\* process.env.ROON_PORT: not set, empty, a number, not a number
PortEnvs == {"undefined", "", "9200", "abc"}
parseInt(p) == IF p = "9200" THEN 9200 ELSE "NaN"
\* the port start() hands to ws_connect
roonPort(p) == IF p \in {"undefined", ""} THEN defaultPort ELSE parseInt(p)

\* mutant: once a reconnect has been scheduled start() falls back to
\* discovery
start_fallbackDiscovery(s, connectOk) ==
  LET s1 == emitStatus(s, "discovering")
  IN IF s.roonHost /\ s.reconnectAttempt = 0
       THEN startConnectionMonitor(
              IF connectOk
                THEN IF s1.sockets >= MaxSockets
                       THEN [s1 EXCEPT !.overflow = TRUE]
                     ELSE [Call(s1, "ws_connect") EXCEPT !.sockets = @ + 1]
              ELSE scheduleReconnect(
                     emitError(Call(s1, "ws_connect"),
                               "Failed to connect to Roon Core")))
     ELSE IF connectOk
       THEN startConnectionMonitor(
              [Call(s1, "start_discovery") EXCEPT !.discovering = TRUE])
     ELSE [emitError(Call(s1, "start_discovery"),
                     "Failed to start Roon client") EXCEPT !.threw = TRUE]

\* connectOk: ws_connect / start_discovery returns (it throws otherwise)
start(s, connectOk) ==
  LET s1 == emitStatus(s, "discovering")
  IN IF s.roonHost
       THEN startConnectionMonitor(
              IF connectOk
                THEN IF s1.sockets >= MaxSockets
                       THEN [s1 EXCEPT !.overflow = TRUE]
                     ELSE [Call(s1, "ws_connect") EXCEPT !.sockets = @ + 1]
              ELSE scheduleReconnect(
                     emitError(Call(s1, "ws_connect"),
                               "Failed to connect to Roon Core")))
     ELSE IF connectOk
       THEN startConnectionMonitor(
              [Call(s1, "start_discovery") EXCEPT !.discovering = TRUE])
     ELSE [emitError(Call(s1, "start_discovery"),
                     "Failed to start Roon client") EXCEPT !.threw = TRUE]

\* mutant: the timer's callback restarts the backoff
reconnectCallback_resetAttempt(s, connectOk) ==
  start([s EXCEPT !.reconnectAttempt = 0], connectOk)

\* the callback of the reconnect timer
reconnectCallback(s, connectOk) == start(s, connectOk)

\* the callback of the connection-monitor interval: it only logs
monitorCallback(s) == s

\* the onclose callback start() gives to ws_connect
onclose(s) == scheduleReconnect(emitStatus(s, "disconnected"))

\* mutant: the timer is cancelled but its handle is kept
stop_staleHandle(s) ==
  LET s1 == IF s.reconnectTimer # NoHandle
              THEN clearTimeout(s, s.reconnectTimer)
            ELSE s
      s2 == IF s1.connectionMonitorInterval # NoHandle
              THEN [Call(s1, "clearInterval") EXCEPT
                      !.intervals = @ \ {s1.connectionMonitorInterval},
                      !.connectionMonitorInterval = NoHandle]
            ELSE s1
  IN clearImageService(clearTransportService(s2))

\* mutant: stop() only clears the services and leaves the timers alone
stop_servicesOnly(s) == clearImageService(clearTransportService(s))

stop(s) ==
  LET s1 == IF s.reconnectTimer # NoHandle
              THEN [clearTimeout(s, s.reconnectTimer) EXCEPT
                      !.reconnectTimer = NoHandle]
            ELSE s
      s2 == IF s1.connectionMonitorInterval # NoHandle
              THEN [Call(s1, "clearInterval") EXCEPT
                      !.intervals = @ \ {s1.connectionMonitorInterval},
                      !.connectionMonitorInterval = NoHandle]
            ELSE s1
  IN clearImageService(clearTransportService(s2))

(* ------------------------- index.ts (main) ----------------------------- *)
\* main(): client.start() in a try block; an exception is reported and the
\* process exits with code 1, otherwise the listeners are registered and
\* main() returns
main(s, connectOk) ==
  LET s1 == start(s, connectOk)
  IN IF s1.threw
       THEN [emitError(s1, "Failed to start Roon client") EXCEPT
               !.threw = FALSE, !.process = "exit1"]
     ELSE [s1 EXCEPT !.process = "running"]

\* mutant: shutdown stops the client and leaves the process running
shutdown_noExit(s) == stop(Call(s, "client.stop"))

\* shutdown: client.stop(), then process.exit(0)
shutdown(s) == [stop(Call(s, "client.stop")) EXCEPT !.process = "exit0"]

\* what makes the process shut down
Triggers == {"SIGINT", "SIGTERM", "stdin end", "stdin close"}

\* the runtime delivers a trigger: its listener runs if the process is
\* still there
deliver(s, trigger) == IF s.process = "running" THEN shutdown(s) ELSE s

\* mutant: the listener reports the exception and exits
uncaughtException_exit(s) ==
  [emitError(s, "Uncaught exception") EXCEPT !.process = "exit1"]

\* the 'uncaughtException' listener
uncaughtException(s) == emitError(s, "Uncaught exception")

\* the 'unhandledRejection' listener
unhandledRejection(s) == emitError(s, "Unhandled rejection")

(* ------------------------------ actions ------------------------------- *)
Scheduled(s) == "setTimeout" \in Range(s.calls)

\* the history variables after handler op left object state s
History(s, op) ==
  /\ stopped' = IF op = "stop" THEN TRUE
                ELSE IF op = "start" THEN FALSE ELSE stopped
  /\ sincePair' = IF op = "core_paired" THEN 0
                  ELSE IF sincePair >= 0 /\ Scheduled(s) THEN sincePair + 1
                  ELSE sincePair
  /\ closeRun' = IF op = "core_paired"
                   THEN IF s.reconnectAttempt = 0 THEN 0 ELSE -1
                 ELSE IF ~Scheduled(s) THEN closeRun
                 ELSE IF op = "onclose" /\ closeRun >= 0 THEN closeRun + 1
                 ELSE -1
  /\ watch' = IF watch = "off" THEN "off"
              ELSE IF op = "timer" THEN "idle"
              ELSE IF op = "core_unpaired"
                        \/ (op = "onclose" /\ isAuthorized
                              /\ currentCore # NoCore)
                THEN "left"
              ELSE watch

Done(s, op) == Commit(s) /\ History(s, op)

Init ==
  /\ roonHost \in BOOLEAN
  /\ isAuthorized = FALSE
  /\ currentCore = NoCore
  /\ reconnectAttempt = 0
  /\ reconnectTimer = NoHandle
  /\ connectionMonitorInterval = NoHandle
  /\ transportService = "null"
  /\ currentZoneId = "null"
  /\ lastImageKey = "null"
  /\ imageService = "null"
  /\ pending = {}
  /\ intervals = {}
  /\ sockets = 0
  /\ discovering = FALSE
  /\ subscribed = FALSE
  /\ inflight = <<>>
  /\ stopped = FALSE
  /\ sincePair = -1
  /\ closeRun = 0
  /\ configFile = AbsentFile
  /\ loaded = NotLoaded
  /\ process = "running"
  /\ watch = "off"

\* client.start() called from outside (index.ts main)
Start ==
  \E connectOk \in BOOLEAN :
    /\ Commit(start(Cur, connectOk))
    /\ History(start(Cur, connectOk), "start")

\* client.stop() called from outside (index.ts shutdown)
Stop ==
  /\ Commit(stop(Cur))
  /\ History(stop(Cur), "stop")

\* the library calls core_paired once a connection to a core exists
CorePaired ==
  /\ sockets > 0 \/ discovering
  /\ \E core \in Cores, subOk \in BOOLEAN :
       Done(handleCorePaired(Cur, core, subOk), "core_paired")

\* the library calls core_unpaired for the paired core
CoreUnpaired ==
  /\ currentCore # NoCore
  /\ Done(handleCoreUnpaired(Cur, currentCore), "core_unpaired")

\* an open web socket closes
SocketClose ==
  /\ sockets > 0
  /\ Done(onclose([Cur EXCEPT !.sockets = @ - 1]), "onclose")

\* the armed reconnect timer t fires: its callback calls start()
TimerFire ==
  \E t \in pending, connectOk \in BOOLEAN :
    Done(reconnectCallback([Cur EXCEPT !.pending = @ \ {t}], connectOk),
         "timer")

\* the connection-monitor interval ticks: it only logs
MonitorTick ==
  /\ intervals # {}
  /\ Done(monitorCallback(Cur), "monitor")

\* the zone subscription delivers a response
ZonesResponse ==
  /\ subscribed
  /\ \E response \in Responses, data \in UpdateInputs :
       /\ response \notin {"Subscribed", "Changed"} => data = NoData
       /\ Done(zonesCallback(Cur, response, data), "zones")

\* a suspended extractAndEmitNowPlaying resumes with the fetch's result
FetchResolve ==
  \E i \in 1..Len(inflight) :
    \E artwork \in FetchResults(inflight[i].imageKey) :
      Done(resumeExtract(
             [Cur EXCEPT !.inflight =
                SubSeq(@, 1, i - 1) \o SubSeq(@, i + 1, Len(@))],
             inflight[i], artwork), "fetch")

Next ==
  \/ Start
  \/ Stop
  \/ CorePaired
  \/ CoreUnpaired
  \/ SocketClose
  \/ TimerFire
  \/ MonitorTick
  \/ ZonesResponse
  \/ FetchResolve

Spec == Init /\ [][Next]_vars

(* ------------------------ the zone subscription ---------------------- *)
\* the client is started, paired and unpaired and its zone subscription
\* delivers responses and artwork, while sockets stay open and no timer fires
TransportNext ==
  \/ Start
  \/ CorePaired
  \/ CoreUnpaired
  \/ ZonesResponse
  \/ FetchResolve

TransportSpec == Init /\ [][TransportNext]_vars

(* ------------------------- the sidecar process ----------------------- *)
\* the client and its managers as their constructors leave them
Constructed ==
  /\ roonHost \in BOOLEAN
  /\ isAuthorized = FALSE /\ currentCore = NoCore
  /\ reconnectAttempt = 0 /\ reconnectTimer = NoHandle
  /\ connectionMonitorInterval = NoHandle
  /\ transportService = "null" /\ currentZoneId = "null"
  /\ lastImageKey = "null" /\ imageService = "null"
  /\ pending = {} /\ intervals = {} /\ sockets = 0
  /\ discovering = FALSE /\ subscribed = FALSE /\ inflight = <<>>
  /\ stopped = FALSE /\ sincePair = -1 /\ closeRun = 0
  /\ configFile = AbsentFile /\ loaded = NotLoaded

\* main() runs: the only start() not made by a timer
Main ==
  /\ process = "main"
  /\ \E connectOk \in BOOLEAN :
       Done(main(Cur, connectOk), "start")

\* a signal arrives or stdin ends or closes
Shutdown ==
  /\ process = "running"
  /\ \E trigger \in Triggers : Done(deliver(Cur, trigger), "stop")

\* a callback throws outside every try block
UncaughtException ==
  /\ process = "running"
  /\ Commit(uncaughtException(Cur))
  /\ UNCHANGED histVars

\* a promise is rejected and nothing handles it
UnhandledRejection ==
  /\ process = "running"
  /\ Commit(unhandledRejection(Cur))
  /\ UNCHANGED histVars

ProcessInit == Constructed /\ process = "main" /\ watch = "off"

\* the program as index.ts runs it: start() is called by main() and by
\* reconnect timers only, stop() by shutdown only
ProcessNext ==
  \/ Main
  \/ Shutdown
  \/ UncaughtException
  \/ UnhandledRejection
  \/ CorePaired
  \/ CoreUnpaired
  \/ SocketClose
  \/ TimerFire
  \/ MonitorTick
  \/ ZonesResponse
  \/ FetchResolve

ProcessSpec == ProcessInit /\ [][ProcessNext]_vars

(* ------------------- the connection, stop() never called -------------- *)
LiveInit == Constructed /\ process = "main" /\ watch = "idle"

\* the program without shutdown and without zone traffic
LiveNext ==
  \/ Main
  \/ CorePaired
  \/ CoreUnpaired
  \/ SocketClose
  \/ TimerFire
  \/ MonitorTick

\* an armed reconnect timer eventually fires
LiveSpec == LiveInit /\ [][LiveNext]_vars /\ WF_vars(TimerFire)

(* --------------- the pairing file and the library's use of it --------- *)
\* the library asks for the persisted state
GetPersistedState ==
  /\ Commit(get_persisted_state(Cur))
  /\ UNCHANGED histVars

\* the library saves its pairing state
SetPersistedState ==
  \E state \in LibStates, outcome \in WriteOutcomes :
    /\ Commit(set_persisted_state(Cur, state, outcome))
    /\ UNCHANGED histVars

\* the client as constructed, the pairing file in any condition
PersistInit ==
  /\ roonHost \in BOOLEAN
  /\ isAuthorized = FALSE /\ currentCore = NoCore
  /\ reconnectAttempt = 0 /\ reconnectTimer = NoHandle
  /\ connectionMonitorInterval = NoHandle
  /\ transportService = "null" /\ currentZoneId = "null"
  /\ lastImageKey = "null" /\ imageService = "null"
  /\ pending = {} /\ intervals = {} /\ sockets = 0
  /\ discovering = FALSE /\ subscribed = FALSE /\ inflight = <<>>
  /\ stopped = FALSE /\ sincePair = -1 /\ closeRun = 0
  /\ configFile \in ConfigFiles
  /\ loaded = NotLoaded
  /\ process = "running"
  /\ watch = "off"

\* starting, pairing and unpairing, with the library loading and saving the
\* pairing state in between
PersistNext ==
  \/ Start
  \/ CorePaired
  \/ CoreUnpaired
  \/ GetPersistedState
  \/ SetPersistedState

PersistSpec == PersistInit /\ [][PersistNext]_vars

(* ------------------------------ claims -------------------------------- *)
\* the events equal to e among those the handler that left s emitted
Emitted(s, e) == Count(s.emitted, e)
\* the calls of `what` the handler that left s made
Called(s, what) == Count(s.calls, what)
FullCore == [display_name |-> "core", hasTransport |-> TRUE, hasImage |-> TRUE]

\* C1: every call of scheduleReconnect(), with a the value of
\* reconnectAttempt before it, arms the one-shot timer with
\* min(1000 * 2^a, 60000) ms and leaves reconnectAttempt = a + 1; the delay
\* is not smaller than the one armed at a - 1 and never exceeds 60000; so an
\* armed timer always carries the delay of the attempt that armed it.
C1_BackoffDelay ==
  LET a == reconnectAttempt
      s == scheduleReconnect(Cur)
  IN /\ ~s.overflow =>
          /\ s.armedDelay = Min(1000 * Pow(2, a), 60000)
          /\ s.pending = {[id |-> s.reconnectTimer, delay |-> s.armedDelay]}
          /\ Called(s, "setTimeout") = 1
          /\ s.reconnectAttempt = a + 1
          /\ s.armedDelay <= 60000
          /\ a > 0 =>
               scheduleReconnect([Cur EXCEPT !.reconnectAttempt = a - 1])
                 .armedDelay <= s.armedDelay
     /\ \A t \in pending :
          /\ t.delay <= 60000
          /\ a > 0 => t.delay = Min(1000 * Pow(2, a - 1), 60000)

\* C1 witness: the seventh reconnect in a row has been scheduled, its timer
\* is armed with the capped delay
C1_Witness ==
  /\ reconnectAttempt = 7
  /\ pending = {[id |-> reconnectTimer, delay |-> 60000]}

\* C2: once core_paired has run and no reconnect was scheduled since, the
\* reconnect a socket close schedules uses attempt 0: its timer is armed
\* with exactly 1000 ms, whatever was scheduled before the pairing.
C2_BackoffRestartsAfterPairing ==
  /\ (sincePair = 0 /\ sockets > 0) =>
       LET s == onclose(Cur)
       IN ~s.overflow => s.armedDelay = 1000 /\ s.reconnectAttempt = 1
  /\ sincePair = 1 => \A t \in pending : t.delay = 1000

\* C2 witness: paired while a timer armed by the third reconnect before the
\* pairing (4000 ms) is still pending; the socket then closes
C2_Witness ==
  /\ sincePair = 0 /\ sockets > 0
  /\ \E t \in pending : t.delay = 4000
  /\ onclose(Cur).armedDelay = 1000

\* the object state the next handler starts from
Then(s) ==
  [s EXCEPT !.emitted = <<>>, !.calls = <<>>, !.armedDelay = 0,
            !.threw = FALSE]

\* the object states left by one armed reconnect timer of a state in S
\* firing, its start() connecting or not as oks allows
AfterTimer(S, oks) ==
  {r \in UNION {{Then(reconnectCallback([s EXCEPT !.pending = @ \ {t}], ok))
                   : t \in s.pending, ok \in oks} : s \in S} : ~r.overflow}

\* the delay the next socket close arms from object state s is that of the
\* (closeRun + 1)-th close of the run
NextCloseDelay(s) ==
  s.sockets > 0 =>
    LET s1 == onclose([s EXCEPT !.sockets = @ - 1])
    IN ~s1.overflow => s1.armedDelay = Min(1000 * Pow(2, closeRun), 60000)

\* C3 (as claimed): from reconnectAttempt = 0, the i-th of consecutive
\* socket closes with no pairing in between arms its timer with
\* min(1000 * 2^(i-1), 60000) ms, whether or not the timers armed by the
\* earlier closes have fired in between (up to two of them, with either
\* outcome of the start() they run)
C3_ConsecutiveClosesAnyTimers ==
  /\ closeRun >= 0 => NextCloseDelay(Cur)
  /\ closeRun >= 1 =>
       \A s \in AfterTimer({Cur}, BOOLEAN)
                 \cup AfterTimer(AfterTimer({Cur}, BOOLEAN), BOOLEAN) :
         NextCloseDelay(s)

\* C3 (amended): the same, provided every start() run by a timer firing
\* between the closes connected (a start() that fails to connect schedules
\* a reconnect of its own and advances the backoff one more step).
C3_ConsecutiveCloses ==
  /\ closeRun >= 0 => NextCloseDelay(Cur)
  /\ closeRun >= 1 =>
       /\ \A s \in AfterTimer({Cur}, {TRUE}) : NextCloseDelay(s)
       /\ \A t \in pending :
            t.delay = Min(1000 * Pow(2, closeRun - 1), 60000)

\* C3 witness: the third socket close in a row left a 4000 ms timer (with two
\* sockets at most, a timer fired and start() connected between the closes)
C3_Witness ==
  /\ closeRun = 3
  /\ pending = {[id |-> reconnectTimer, delay |-> 4000]}

\* C4: at most one reconnect timer is armed, and it is the one
\* reconnectTimer holds; scheduleReconnect() leaves exactly one armed.
C4_OneReconnectTimer ==
  /\ Cardinality(pending) <= 1
  /\ \A t \in pending : t.id = reconnectTimer
  /\ LET s == scheduleReconnect(Cur)
     IN ~s.overflow => Cardinality(s.pending) = 1

\* C4 witness: a socket closes while the timer of an earlier close is still
\* armed; the handler cancels it and arms one
C4_Witness ==
  /\ sockets > 0 /\ closeRun >= 1
  /\ pending # {}
  /\ LET s == onclose(Cur)
     IN /\ Called(s, "clearTimeout") = 1
        /\ Cardinality(s.pending) = 1
        /\ s.pending # pending

\* what the callbacks that can still arrive would do in this state
LaterCallbacks ==
  (IF sockets > 0 THEN {onclose(Cur)} ELSE {})
    \cup {reconnectCallback([Cur EXCEPT !.pending = @ \ {t}], TRUE) :
            t \in pending}
    \cup (IF subscribed
            THEN {zonesCallback(Cur, "Changed", d) : d \in UpdateInputs}
          ELSE {})
    \cup {resumeExtract(Cur, inflight[i], "undefined") :
            i \in 1..Len(inflight)}

\* C5 (as claimed): after stop() no timer or interval is armed, and no
\* later callback (socket close, zone update, resumed artwork fetch) emits an
\* event or calls start()
C5_NothingAfterStop ==
  stopped =>
    /\ pending = {} /\ intervals = {}
    /\ \A s \in LaterCallbacks :
         /\ s.emitted = <<>>
         /\ s.pending = {} /\ s.intervals = {}

\* C6: stop() cancels the reconnect timer and the monitor interval and nulls
\* both handles, and clears the transport and image services with the cached
\* zone id and image key, in every state.
C6_StopClears ==
  LET s == stop(Cur)
  IN /\ s.reconnectTimer = NoHandle /\ s.pending = {}
     /\ s.connectionMonitorInterval = NoHandle /\ s.intervals = {}
     /\ s.transportService = "null" /\ s.imageService = "null"
     /\ s.currentZoneId = "null" /\ s.lastImageKey = "null"

\* C6 witness: stop() is called with a timer armed, the monitor alive, both
\* services set and a zone and image key cached
C6_Witness ==
  /\ pending # {} /\ intervals # {}
  /\ transportService # "null" /\ imageService # "null"
  /\ currentZoneId # "null" /\ lastImageKey # "null"
  /\ stop(Cur).pending = {} /\ stop(Cur).lastImageKey = "null"

\* C7 (as claimed): a start() while the client is connecting or discovering
\* is a no-op: no second ws_connect / start_discovery, no second status
\* event, no second monitor
C7_StartIsNoOp ==
  (~isAuthorized /\ (sockets > 0 \/ discovering)) =>
    \A connectOk \in BOOLEAN :
      LET s == start(Cur, connectOk)
      IN ~s.overflow =>
           /\ s.emitted = <<>>
           /\ Called(s, "ws_connect") = 0
           /\ Called(s, "start_discovery") = 0
           /\ s.intervals = intervals

\* C7 (amended): a repeat start() creates no second monitor interval, but it
\* does emit 'discovering' and call ws_connect / start_discovery again.
C7_StartKeepsOneMonitor ==
  connectionMonitorInterval # NoHandle =>
    \A connectOk \in BOOLEAN :
      LET s == start(Cur, connectOk)
      IN ~s.overflow =>
           /\ s.intervals = intervals
           /\ s.connectionMonitorInterval = connectionMonitorInterval
           /\ Called(s, "setInterval") = 0
           /\ Emitted(s, StatusEv("discovering")) = 1
           /\ Called(s, "ws_connect") + Called(s, "start_discovery") = 1

\* C7 witness: start() has run twice (two sockets are open) and one monitor
\* interval is alive
C7_Witness ==
  /\ sockets = 2
  /\ intervals = {connectionMonitorInterval}
  /\ Called(start(Cur, FALSE), "ws_connect") = 1

\* C8 (as claimed): core_unpaired leaves the client not connected, emits
\* 'disconnected', clears the transport and image services and schedules a
\* reconnect
C8_UnpairedSchedulesReconnect ==
  currentCore # NoCore =>
    LET s == handleCoreUnpaired(Cur, currentCore)
    IN /\ ~isConnected(s)
       /\ Emitted(s, StatusEv("disconnected")) = 1
       /\ s.transportService = "null" /\ s.imageService = "null"
       /\ Scheduled(s) /\ s.pending # {}

\* C9 (as claimed): the onclose callback of a paired client leaves it not
\* connected, emits 'disconnected', clears the services with the cached zone
\* id and image key, and schedules a reconnect
C9_CloseDisconnects ==
  (isConnected(Cur) /\ sockets > 0) =>
    LET s == onclose(Cur)
    IN ~s.overflow =>
         /\ ~isConnected(s)
         /\ Emitted(s, StatusEv("disconnected")) = 1
         /\ s.transportService = "null" /\ s.imageService = "null"
         /\ s.currentZoneId = "null" /\ s.lastImageKey = "null"
         /\ Scheduled(s)

\* C10: every core_paired callback sets reconnectAttempt to 0, leaves the
\* client connected to the paired core, emits exactly one 'connected' status
\* event and hands each service the core has to its manager: the transport
\* service is stored and subscribe_zones is called once.
C10_PairedConnects ==
  /\ \A core \in Cores, subOk \in BOOLEAN :
       LET s == handleCorePaired(Cur, core, subOk)
       IN /\ s.reconnectAttempt = 0
          /\ isConnected(s) /\ getCurrentCore(s) = core
          /\ Emitted(s, StatusEv("connected")) = 1
          /\ \A i \in 1..Len(s.emitted) : s.emitted[i][1] = "status" =>
               s.emitted[i] = StatusEv("connected")
          /\ core.hasTransport =>
               /\ s.transportService = "transport"
               /\ Called(s, "subscribe_zones") = 1
               /\ subOk => s.subscribed
          /\ core.hasImage => s.imageService = "image"
  /\ sincePair = 0 => reconnectAttempt = 0

\* C10 witness: the client is paired after two reconnects were scheduled (a
\* 2000 ms timer is still armed), its counter is 0 and the zones are
\* subscribed to
C10_Witness ==
  /\ isAuthorized /\ currentCore = FullCore /\ sincePair = 0
  /\ reconnectAttempt = 0
  /\ transportService = "transport" /\ imageService = "image" /\ subscribed
  /\ \E t \in pending : t.delay = 2000

\* C11 (as claimed): a start() whose connection attempt fails does not throw,
\* emits an error event and arms a reconnect timer, with a manual host
\* (ws_connect throws) and in auto-discovery (start_discovery throws) alike
C11_ConnectErrorRetries ==
  LET s == start(Cur, FALSE)
  IN ~s.overflow =>
       /\ ~s.threw
       /\ \E i \in 1..Len(s.emitted) : s.emitted[i][1] = "error"
       /\ Scheduled(s) /\ s.pending # {}

\* C12 (as claimed): after a NetworkError or ConnectionError response of the
\* zone subscription a reconnect timer is armed (the callback arms one, or
\* one armed before is still pending and will call start())
C12_SubscriptionErrorRetries ==
  subscribed =>
    \A response \in {"NetworkError", "ConnectionError"} :
      zonesCallback(Cur, response, NoData).pending # {}

\* updates of the zone subscription used below
Upd(zl) == ZonesData(TRUE, zl, FALSE, <<>>, <<>>, FALSE)
Chg(zl) == ZonesData(FALSE, <<>>, TRUE, zl, <<>>, FALSE)
SeekOnly == ZonesData(FALSE, <<>>, FALSE, <<>>, <<>>, TRUE)
KeyUpdate(k) == Upd(<<Zone("z1", "playing", NowPlaying(k))>>)
EmptyStopped == NowPlayingEv("", "", "", "stopped", "undefined")

\* C13: a seek-only update (zones_seek_changed non-empty, no zones, no
\* zones_changed, no removals) makes the handler emit nothing, request no
\* artwork and leave currentZoneId and lastImageKey as they are.
C13_SeekOnlyIgnored ==
  subscribed =>
    \A response \in {"Subscribed", "Changed"} :
      LET s == zonesCallback(Cur, response, SeekOnly)
      IN /\ s.emitted = <<>>
         /\ Called(s, "fetchArtwork") = 0 /\ s.inflight = inflight
         /\ s.currentZoneId = currentZoneId
         /\ s.lastImageKey = lastImageKey

\* C13 witness: a seek-only update arrives while a zone and an image key are
\* cached, and leaves them
C13_Witness ==
  /\ subscribed /\ currentZoneId = "z1" /\ lastImageKey = "k1"
  /\ zonesCallback(Cur, "Changed", SeekOnly).currentZoneId = "z1"
  /\ zonesCallback(Cur, "Changed", SeekOnly).lastImageKey = "k1"

\* zone lists of one or two zones in every combination of states
SelNowPlaying(st) ==
  IF st = "stopped" THEN NoNowPlaying ELSE NowPlaying("undefined")
SelLists ==
  {<<Zone("z1", a, SelNowPlaying(a))>> : a \in ZoneStates}
    \cup {<<Zone("z1", a, SelNowPlaying(a)), Zone("z2", b, SelNowPlaying(b))>>
            : a \in ZoneStates, b \in ZoneStates}
Active(z) == z.state \in {"playing", "paused"}
\* zl[i] is the first playing or paused zone, or the first zone if none is
Selected(zl, i) ==
  \/ Active(zl[i]) /\ \A j \in 1..(i - 1) : ~Active(zl[j])
  \/ i = 1 /\ \A j \in 1..Len(zl) : ~Active(zl[j])
\* the snapshot of a zone whose now_playing is Song / Artist / Album, no key
Snapshot(z) ==
  IF z.state \in {"stopped", "undefined"} \/ ~z.now_playing.present
    THEN EmptyStopped
  ELSE NowPlayingEv("Song", "Artist", "Album",
                    IF Active(z) THEN z.state ELSE "stopped", "undefined")
ExampleList ==
  <<Zone("z1", "stopped", NoNowPlaying),
    Zone("z2", "playing", NowPlaying("undefined"))>>

\* C14: for every non-empty zone list of an update (zones or zones_changed)
\* the zone whose id becomes currentZoneId and whose snapshot is emitted is
\* the first playing or paused zone of the list, or its first zone if none
\* is; [z1 stopped, z2 playing Song/Artist/Album] emits that snapshot for z2.
C14_FirstActiveZone ==
  subscribed =>
    /\ \A zl \in SelLists :
         \A d \in {Upd(zl), Chg(zl)} :
           LET s == handleZonesUpdate(Cur, d)
           IN \E i \in 1..Len(zl) :
                /\ Selected(zl, i)
                /\ s.currentZoneId = zl[i].zone_id
                /\ s.emitted = <<Snapshot(zl[i])>>
    /\ LET s == handleZonesUpdate(Cur, Upd(ExampleList))
       IN /\ s.currentZoneId = "z2"
          /\ s.emitted =
               <<NowPlayingEv("Song", "Artist", "Album", "playing",
                              "undefined")>>

\* C14 witness: z1 is the current zone when [z1 stopped, z2 playing] arrives
C14_Witness ==
  /\ subscribed /\ currentZoneId = "z1"
  /\ handleZonesUpdate(Cur, Upd(ExampleList)).currentZoneId = "z2"

\* removal-only updates, with and without seek data along
RemovalOnly ==
  {ZonesData(FALSE, <<>>, FALSE, <<>>, <<"z1">>, sk) : sk \in BOOLEAN}

\* C15 (as claimed): an update with non-empty zones_removed and no zones /
\* zones_changed, received while the removed zone is current, emits one
\* empty stopped snapshot and nulls currentZoneId and lastImageKey; received
\* while currentZoneId is null it emits nothing
C15_RemovalClears ==
  subscribed =>
    \A d \in RemovalOnly :
      LET s == handleZonesUpdate(Cur, d)
      IN /\ currentZoneId = "z1" =>
              /\ s.emitted = <<EmptyStopped>>
              /\ s.currentZoneId = "null" /\ s.lastImageKey = "null"
         /\ currentZoneId = "null" => s.emitted = <<>>

\* now_playing payloads in every combination of line structures, with
\* lines missing or empty
MetaNowPlayings ==
  {[present |-> TRUE, image_key |-> "undefined",
    three_line |-> a, two_line |-> b, one_line |-> c] :
     a \in {<<>>, <<"t3", "a3", "l3">>, <<"t3", "undefined", "">>,
            <<"undefined", "undefined", "undefined">>},
     b \in {<<>>, <<"t2", "a2">>, <<"", "a2">>},
     c \in {<<>>, <<"t1">>, <<"undefined">>}}
\* the richest line structure present
Chosen(np) ==
  IF np.three_line # <<>> THEN np.three_line
  ELSE IF np.two_line # <<>> THEN np.two_line ELSE np.one_line
\* line i of structure q, '' if q has no such line or it is empty
Field(q, i) ==
  IF i <= Len(q) /\ q[i] \notin {"undefined", ""} THEN q[i] ELSE ""

\* C16: title, artist and album are lines 1, 2, 3 of exactly one line
\* structure, the richest present (three_line > two_line > one_line); a line
\* the structure lacks or holds empty is '', never a line of another one.
C16_MetadataPrecedence ==
  subscribed =>
    \A np \in MetaNowPlayings :
      LET s == handleZonesUpdate(Cur, Upd(<<Zone("z1", "playing", np)>>))
          q == Chosen(np)
      IN s.emitted = <<NowPlayingEv(Field(q, 1), Field(q, 2), Field(q, 3),
                                    "playing", "undefined")>>

\* C16 witness: a zone with a two_line lacking line2 and a one_line is
\* playing: only the two_line's title is emitted
C16_Witness ==
  /\ subscribed /\ currentZoneId = "z1"
  /\ \E zl \in ZoneLists :
       /\ zl[1].now_playing.two_line = <<"Song", "undefined">>
       /\ handleZonesUpdate(Cur, Upd(zl)).emitted =
            <<NowPlayingEv("Song", "", "", "playing", "undefined")>>

\* the suspended calls in q that took the 'new image key' branch for key k
NewKeyFetches(q, k) ==
  Cardinality({i \in 1..Len(q) : q[i].newKey /\ q[i].imageKey = k})

\* C17 (as claimed): two consecutive playing updates with the same image
\* key, the second arriving while the fetch of the first may still be in
\* flight, take the 'new image key' fetch at most once
C17_OneFetchPerKey ==
  subscribed =>
    \A k \in ImageKeys :
      LET s1 == handleZonesUpdate(Cur, KeyUpdate(k))
          s2 == handleZonesUpdate(Then(s1), KeyUpdate(k))
      IN ~s1.overflow =>
           NewKeyFetches(s2.inflight, k) <= NewKeyFetches(inflight, k) + 1

\* updates whose selected zone is stopped, has no state or no now_playing
StoppedLists ==
  {<<Zone("z1", "stopped", NoNowPlaying)>>,
   <<Zone("z1", "stopped", NowPlaying("k1"))>>,
   <<Zone("z1", "undefined", NowPlaying("k1"))>>,
   <<Zone("z1", "playing", NoNowPlaying)>>}

\* C18: when the selected zone is stopped, has no state or has no
\* now_playing, one empty stopped snapshot is emitted and lastImageKey is
\* null, and the next update with an image key, the key cached before
\* included, takes the 'new image key' branch.
C18_StoppedClearsImageKey ==
  subscribed =>
    \A zl \in StoppedLists :
      LET s1 == handleZonesUpdate(Cur, Upd(zl))
      IN /\ s1.emitted = <<EmptyStopped>>
         /\ s1.lastImageKey = "null"
         /\ \A k \in ImageKeys :
              LET s2 == handleZonesUpdate(Then(s1), KeyUpdate(k))
              IN /\ Called(s2, "fetchArtwork") = 1
                 /\ Len(s2.inflight) = Len(inflight) + 1
                 /\ s2.inflight[Len(s2.inflight)].imageKey = k
                 /\ s2.inflight[Len(s2.inflight)].newKey

\* C18 witness: k1 is the cached key when the zone stops
C18_Witness ==
  /\ subscribed /\ lastImageKey = "k1" /\ currentZoneId = "z1"
  /\ handleZonesUpdate(Cur, Upd(<<Zone("z1", "stopped", NoNowPlaying)>>))
       .lastImageKey = "null"

\* C19: get_persisted_state never returns null or undefined and what it
\* returns always has a non-null tokens container: { tokens: {} } for an
\* absent file and for a JSON value that is null or not an object, the
\* stored object with tokens = {} added when it has none, the stored object
\* as it is when it has tokens.
C19_LoaderHasTokens ==
  LET r == get_persisted_state(Cur).loaded
      f == configFile
  IN /\ ~get_persisted_state(Cur).threw
     /\ r.type \in {"object", "array"}
     /\ r.tokens \notin {"undefined", "null"}
     /\ ~f.exists => r = EmptyState
     /\ (f.exists /\ f.readable /\ f.valid) =>
          /\ f.value.type \in {"null", "number", "string"} => r = EmptyState
          /\ f.value.type = "array" => r = [f.value EXCEPT !.tokens = "empty"]
          /\ (f.value.type = "object" /\ Falsy(f.value.tokens)) =>
               r = [f.value EXCEPT !.tokens = "empty"]
          /\ (f.value.type = "object" /\ ~Falsy(f.value.tokens)) =>
               r = f.value
     /\ loaded # NotLoaded =>
          /\ loaded.type \in {"object", "array"}
          /\ loaded.tokens \notin {"undefined", "null"}

\* C19 witness: the file holds an object with a paired core and tokens: null,
\* and the state loaded from it has tokens = {}
C19_Witness ==
  /\ configFile = JsonFile(JVal("object", "null", "core"))
  /\ loaded = JVal("object", "empty", "core")

\* the fields of the client and its managers
ClientState(s) ==
  <<s.isAuthorized, s.currentCore, s.reconnectAttempt, s.reconnectTimer,
    s.connectionMonitorInterval, s.transportService, s.currentZoneId,
    s.lastImageKey, s.imageService, s.pending, s.intervals, s.sockets,
    s.discovering, s.subscribed>>

\* C20: a file that cannot be read or parsed makes get_persisted_state
\* return { tokens: {} } without throwing; a write that fails makes
\* set_persisted_state return without throwing, nothing emitted and the
\* client's state untouched.
C20_PersistenceErrorsNotFatal ==
  /\ (configFile.exists /\ (~configFile.readable \/ ~configFile.valid)) =>
       LET s == get_persisted_state(Cur)
       IN ~s.threw /\ s.loaded = EmptyState
            /\ ClientState(s) = ClientState(Cur)
  /\ \A state \in LibStates, outcome \in WriteOutcomes \ {"ok"} :
       LET s == set_persisted_state(Cur, state, outcome)
       IN /\ ~s.threw /\ s.emitted = <<>>
          /\ ClientState(s) = ClientState(Cur)
          /\ s.loaded = loaded

\* C20 witness: the client is paired, a write has failed half way and left
\* a file that is not JSON, and loading it gave the empty token state
C20_Witness ==
  /\ isAuthorized /\ currentCore = FullCore
  /\ configFile = InvalidFile
  /\ loaded = EmptyState

\* cores that lack one of the two services
PartialCores == {c \in Cores : ~c.hasTransport \/ ~c.hasImage}

\* C21 (as claimed): when the paired core lacks the transport or the image
\* service, core_paired emits an error event, and the client stays paired,
\* has emitted 'connected' and has initialised the service that is there
C21_MissingServiceReported ==
  (sockets > 0 \/ discovering) =>
    \A core \in PartialCores :
      LET s == handleCorePaired(Cur, core, TRUE)
      IN /\ \E i \in 1..Len(s.emitted) : s.emitted[i][1] = "error"
         /\ isConnected(s)
         /\ Emitted(s, StatusEv("connected")) = 1
         /\ core.hasTransport => s.transportService = "transport"
         /\ core.hasImage => s.imageService = "image"

\* the object states a start() leaves in this state, called from outside or
\* by an armed reconnect timer
Starts ==
  {r \in {start(Cur, ok) : ok \in BOOLEAN}
           \cup {reconnectCallback([Cur EXCEPT !.pending = @ \ {t}], ok) :
                   t \in pending, ok \in BOOLEAN} : ~r.overflow}

\* C22: with a manual host configured every start(), the reconnect timer's
\* included, calls ws_connect once and never start_discovery; without one it
\* calls start_discovery once and never ws_connect; the port is 9100 unless
\* ROON_PORT is set.
C22_ModeFromConfiguration ==
  /\ \A s \in Starts :
       /\ s.roonHost = roonHost
       /\ roonHost =>
            Called(s, "ws_connect") = 1 /\ Called(s, "start_discovery") = 0
       /\ ~roonHost =>
            Called(s, "start_discovery") = 1 /\ Called(s, "ws_connect") = 0
  /\ ~roonHost => sockets = 0
  /\ roonHost => ~discovering
  /\ roonPort("undefined") = 9100 /\ roonPort("9200") = 9200

\* C22 witness: a manual host is configured, two reconnects were scheduled
\* and the armed timer's start() calls ws_connect again
C22_Witness ==
  /\ roonHost /\ reconnectAttempt = 2 /\ pending # {}
  /\ \A t \in pending :
       Called(reconnectCallback([Cur EXCEPT !.pending = @ \ {t}], FALSE),
              "ws_connect") = 1

\* C23: each shutdown trigger (SIGINT, SIGTERM, stdin end, stdin close) runs
\* client.stop() once, which cancels the timers and clears the services, and
\* then exits with code 0; a trigger that arrives after that runs nothing, so
\* stop() is executed once per shutdown.
C23_GracefulShutdown ==
  /\ process = "running" =>
       \A g1 \in Triggers, g2 \in Triggers :
         LET s1 == deliver(Cur, g1)
             s2 == deliver(Then(s1), g2)
         IN /\ s1.process = "exit0"
            /\ s1.calls[1] = "client.stop" /\ Called(s1, "client.stop") = 1
            /\ s1.pending = {} /\ s1.intervals = {}
            /\ s1.reconnectTimer = NoHandle
            /\ s1.connectionMonitorInterval = NoHandle
            /\ s1.transportService = "null" /\ s1.imageService = "null"
            /\ s2 = Then(s1)
  /\ process = "exit0" =>
       /\ stopped /\ pending = {} /\ intervals = {}
       /\ transportService = "null" /\ imageService = "null"

\* C23 witness: a trigger arrives while a reconnect timer and the monitor
\* are armed and the services are set
C23_Witness ==
  /\ process = "running" /\ pending # {} /\ intervals # {}
  /\ transportService # "null" /\ imageService # "null"
  /\ deliver(Cur, "stdin end").process = "exit0"
  /\ deliver(Cur, "stdin end").pending = {}

\* C24: the uncaughtException and unhandledRejection listeners emit one
\* error event and leave the process running with the client as it was; the
\* start() a reconnect timer runs throws nothing; the process has exited
\* with code 1 only from main() after a start() that threw, and with code 0
\* only from shutdown.
C24_FaultsNotFatal ==
  /\ process = "running" =>
       /\ \A s \in {uncaughtException(Cur), unhandledRejection(Cur)} :
            /\ s.process = "running"
            /\ Len(s.emitted) = 1 /\ s.emitted[1][1] = "error"
            /\ [s EXCEPT !.emitted = <<>>] = Cur
       /\ \A t \in pending, ok \in BOOLEAN :
            LET s == reconnectCallback([Cur EXCEPT !.pending = @ \ {t}], ok)
            IN ~s.threw /\ s.process = "running"
  /\ process = "exit1" =>
       /\ ~roonHost /\ ~discovering /\ ~stopped
       /\ sincePair = -1 /\ intervals = {} /\ pending = {}
  /\ process = "exit0" => stopped
  /\ process = "main" => sockets = 0 /\ ~discovering /\ pending = {}

\* C24 witness: the client is paired with a reconnect timer armed when an
\* exception reaches the listener; the process goes on
C24_Witness ==
  /\ process = "running" /\ isAuthorized /\ pending # {}
  /\ uncaughtException(Cur).process = "running"
  /\ uncaughtException(Cur).emitted = <<ErrorEv("Uncaught exception")>>

\* C25 (as claimed): whenever the client has left Paired, through
\* core_unpaired or through a socket close, and stop() is not called, a
\* reconnect timer eventually calls start() again
C25_EventuallyReconnects == (watch = "left") ~> (watch = "idle")

\* C26 (as claimed): at most one connection-monitor interval is alive, the
\* one connectionMonitorInterval holds; every start(), from outside or from a
\* reconnect timer, leaves exactly one; stop() leaves none, and a start()
\* after it creates one again
C26_OneMonitor ==
  /\ Cardinality(intervals) <= 1
  /\ \A i \in intervals : i = connectionMonitorInterval
  /\ \A s \in Starts :
       s.intervals = {s.connectionMonitorInterval}
         /\ s.connectionMonitorInterval # NoHandle
  /\ stop(Cur).intervals = {}
  /\ \A ok \in BOOLEAN :
       LET s == start(Then(stop(Cur)), ok)
       IN ~s.overflow => Cardinality(s.intervals) = 1

\* C27 (as claimed): update U1 (playing, new image key, suspended at the
\* artwork fetch) is followed by update U2 (the zone has stopped) before the
\* fetch resolves; once U2's snapshot is out, the resumed U1 emits nothing
\* that is not the snapshot of U2, the last update received
C27_SnapshotsInOrder ==
  subscribed =>
    \A k \in ImageKeys :
      LET s1 == handleZonesUpdate(Cur, KeyUpdate(k))
          s2 == handleZonesUpdate(
                  Then(s1), Upd(<<Zone("z1", "stopped", NoNowPlaying)>>))
          n == Len(s2.inflight)
      IN (~s1.overflow /\ k # lastImageKey) =>
           /\ s2.emitted = <<EmptyStopped>>
           /\ \A art \in FetchResults(k) :
                resumeExtract(
                  [Then(s2) EXCEPT !.inflight = SubSeq(@, 1, n - 1)],
                  s2.inflight[n], art).emitted \in {<<>>, s2.emitted}

\* the callbacks that can still arrive once the core is unpaired: an artwork
\* fetch started before resolves, the old zone subscription fires again
AfterUnpair ==
  {resumeExtract(
     [Cur EXCEPT !.inflight = SubSeq(@, 1, i - 1) \o SubSeq(@, i + 1, Len(@))],
     inflight[i], art) : i \in 1..Len(inflight), art \in {"art1", "undefined"}}
    \cup (IF subscribed
            THEN {r \in {zonesCallback(Cur, "Changed", d) : d \in UpdateInputs}
                    : ~r.overflow}
          ELSE {})

\* C28 (as claimed): from a core_unpaired callback to the next core_paired,
\* currentZoneId and lastImageKey are null and stay null, and no callback
\* emits a now-playing snapshot with state playing or paused
C28_QuietAfterUnpair ==
  (sincePair >= 0 /\ currentCore = NoCore) =>
    /\ currentZoneId = "null" /\ lastImageKey = "null"
    /\ \A s \in AfterUnpair :
         /\ s.currentZoneId = "null" /\ s.lastImageKey = "null"
         /\ \A i \in 1..Len(s.emitted) :
              s.emitted[i][1] = "now_playing" =>
                s.emitted[i][5] \notin {"playing", "paused"}

\* C29 (as claimed): whenever a reconnect timer is armed, and so may fire and
\* call start(), isConnected() is false
C29_TimerNeverFiresConnected ==
  \A t \in pending :
    ~isConnected([Cur EXCEPT !.pending = @ \ {t}])

\* what start(), stop(), a socket close, scheduleReconnect and zone updates
\* leave in this state
OtherHandlers ==
  {r \in {start(Cur, ok) : ok \in BOOLEAN}
           \cup {stop(Cur), onclose(Cur), scheduleReconnect(Cur)}
           \cup {zonesCallback(Cur, "Changed", d) :
                   d \in {KeyUpdate("k1"), SeekOnly,
                          Upd(<<Zone("z1", "stopped", NoNowPlaying)>>),
                          ZonesData(FALSE, <<>>, FALSE, <<>>, <<"z1">>, FALSE)}}
           \cup {zonesCallback(Cur, "NetworkError", NoData)}
           \cup {resumeExtract(Cur, inflight[i], "undefined") :
                   i \in 1..Len(inflight)} : ~r.overflow}

\* C30: isAuthorized is true exactly when currentCore is non-null; core_paired
\* leaves the client connected and core_unpaired not connected, and start(),
\* stop(), a socket close, scheduleReconnect and zone updates change neither
\* field, so isConnected() is true exactly from a core_paired to the next
\* core_unpaired.
C30_AuthorizedIffCore ==
  /\ isAuthorized <=> currentCore # NoCore
  /\ isConnected(Cur) <=> isAuthorized
  /\ isConnected(Cur) => sincePair >= 0
  /\ \A core \in Cores : isConnected(handleCorePaired(Cur, core, TRUE))
  /\ LET s == handleCoreUnpaired(Cur, currentCore)
     IN ~isConnected(s) /\ ~s.isAuthorized /\ s.currentCore = NoCore
  /\ \A s \in OtherHandlers :
       s.isAuthorized = isAuthorized /\ s.currentCore = currentCore

\* C30 witness: stop() has run on a paired client, which still reports
\* itself connected
C30_Witness ==
  /\ stopped /\ isAuthorized /\ currentCore = FullCore
  /\ transportService = "null"
  /\ isConnected(stop(Cur))

\* what start, pair, unpair, zone-update and subscription-error events leave
\* in this state
AutoHandlers ==
  {r \in {start(Cur, ok) : ok \in BOOLEAN}
           \cup {handleCorePaired(Cur, core, ok) :
                   core \in Cores, ok \in BOOLEAN}
           \cup {handleCoreUnpaired(Cur, currentCore)}
           \cup {zonesCallback(Cur, "Changed", d) :
                   d \in {KeyUpdate("k1"),
                          ZonesData(FALSE, <<>>, FALSE, <<>>, <<"z1">>, FALSE)}}
           \cup {zonesCallback(Cur, response, NoData) :
                   response \in {"NetworkError", "ConnectionError"}}
     : ~r.overflow}

\* C31: with no manual host no reconnect timer is ever armed and
\* reconnectAttempt stays 0: start, pair, unpair, zone-update and
\* subscription-error events never call scheduleReconnect, and a start()
\* whose start_discovery fails rethrows.
C31_AutoModeNeverSchedules ==
  ~roonHost =>
    /\ pending = {} /\ reconnectTimer = NoHandle /\ reconnectAttempt = 0
    /\ \A s \in AutoHandlers :
         /\ ~Scheduled(s) /\ s.pending = {}
         /\ s.reconnectTimer = NoHandle /\ s.reconnectAttempt = 0
    /\ start(Cur, FALSE).threw

\* C31 witness: in discovery mode the client was paired and unpaired and its
\* old subscription reports a network error; nothing is armed
C31_Witness ==
  /\ ~roonHost /\ discovering /\ subscribed
  /\ sincePair >= 0 /\ currentCore = NoCore
  /\ pending = {}
  /\ zonesCallback(Cur, "NetworkError", NoData).pending = {}

\* C32 (as claimed): a removal-only update whose removed zone is not the
\* current zone emits nothing and leaves currentZoneId and lastImageKey as
\* they are
C32_OtherZoneRemoved ==
  subscribed =>
    \A z \in ZoneIds :
      LET s == handleZonesUpdate(
                 Cur, ZonesData(FALSE, <<>>, FALSE, <<>>, <<z>>, FALSE))
      IN z # currentZoneId =>
           /\ s.emitted = <<>>
           /\ s.currentZoneId = currentZoneId
           /\ s.lastImageKey = lastImageKey

\* zones in every playback state, with a now_playing and with none
StateLists ==
  {<<Zone("z1", st, np)>> :
     st \in ZoneStates, np \in {NoNowPlaying, NowPlaying("undefined")}}

\* C33 (as claimed): every snapshot the zone handler emits has state
\* playing, paused or stopped, and one with state stopped has empty title,
\* artist and album and no artwork, whatever the state of the zone
C33_StoppedIsEmpty ==
  subscribed =>
    \A zl \in StateLists :
      LET s == handleZonesUpdate(Cur, Upd(zl))
      IN \A i \in 1..Len(s.emitted) :
           /\ s.emitted[i][5] \in {"playing", "paused", "stopped"}
           /\ s.emitted[i][5] = "stopped" => s.emitted[i] = EmptyStopped

\* C34: stop() never throws and emits nothing, and a second stop() right
\* after it cancels nothing and leaves the client exactly as the first did:
\* handles null, no timer or interval, services cleared.
C34_StopIdempotent ==
  LET s1 == stop(Cur)
      s2 == stop(Then(s1))
  IN /\ ~s1.threw /\ ~s2.threw
     /\ s1.emitted = <<>> /\ s2.emitted = <<>>
     /\ s2.calls = <<>>
     /\ s2 = Then(s1)
     /\ s2.reconnectTimer = NoHandle /\ s2.pending = {}
     /\ s2.connectionMonitorInterval = NoHandle /\ s2.intervals = {}
     /\ s2.transportService = "null" /\ s2.imageService = "null"

\* C34 witness: stop() is called twice with a timer and the monitor armed
\* and the services set; the first call cancels both, the second nothing
C34_Witness ==
  /\ pending # {} /\ intervals # {} /\ transportService # "null"
  /\ Called(stop(Cur), "clearTimeout") = 1
  /\ Called(stop(Cur), "clearInterval") = 1
  /\ stop(Then(stop(Cur))).calls = <<>>

====
